---- MODULE Spec2Model ----
(***************************************************************************)
(* A model of parks-ui/src/App.jsx: the request life cycle of              *)
(* callEndpoint, the image selection pipeline of the file input, and the   *)
(* rendering of a response (chart dispatch and normalisation).             *)
(*                                                                         *)
(* JavaScript values are tagged records [t, s, n]: t is the type tag, s    *)
(* the string payload, n the number payload.                               *)
(***************************************************************************)
EXTENDS Integers, Sequences, FiniteSets, TLC

VARIABLES
    loading,      \* useState(false), App.jsx:20
    resp,         \* useState(null), App.jsx:21
    error,        \* useState(""), App.jsx:22
    e2eLatency,   \* useState(null), App.jsx:23
    activeTab,    \* useState("agent"), App.jsx:17
    imageUri,     \* useState(""), App.jsx:19
    calls,        \* the callEndpoint invocations that have not settled yet
    started,      \* how many callEndpoint invocations were started
    now,          \* the clock read by performance.now()
    last,         \* the outcome of the latest settled invocation
    pipes,        \* one record per file selection: its file and its position
    alerts,       \* the messages shown with alert(), in order
    view          \* what the latest render of App returned

vars == << loading, resp, error, e2eLatency, activeTab, imageUri, calls,
           started, now, last, pipes, alerts, view >>

requestVars == << loading, resp, error, e2eLatency, calls, started, now, last >>
imageVars == << imageUri, pipes, alerts >>

\* ------------------------------------------------------------------ bounds

MaxCalls == 3
MaxTime == 3
MaxSelections == 2
MaxPoints == 2
MaxEntries == 2
MaxMdLen == 4
MaxLogs == 3

\* ------------------------------------------------------- JavaScript values

Undef == [t |-> "undefined", s |-> "", n |-> 0]
Null == [t |-> "null", s |-> "", n |-> 0]
Str(x) == [t |-> "str", s |-> x, n |-> 0]
Num(k) == [t |-> "num", s |-> "", n |-> k]
Obj == [t |-> "obj", s |-> "", n |-> 0]

\* ToBoolean: undefined, null, "" and 0 are falsy, every object is truthy.
Truthy(v) ==
    CASE v.t = "str" -> v.s # ""
      [] v.t = "num" -> v.n # 0
      [] v.t = "obj" -> TRUE
      [] OTHER -> FALSE

\* String(v), as new Error(v) and the template literals apply it.
ToStr(v) ==
    CASE v.t = "str" -> v.s
      [] v.t = "num" -> ToString(v.n)
      [] v.t = "obj" -> "[object Object]"
      [] v.t = "null" -> "null"
      [] OTHER -> "undefined"

\* a || b
Or(a, b) == IF Truthy(a) THEN a ELSE b

\* ------------------------------------------------------------ HTTP replies

\* The detail field of an error body: a value that may carry error and message.
Detail(v, e, m) == [t |-> v.t, s |-> v.s, n |-> v.n, error |-> e, message |-> m]
Plain(v) == Detail(v, Undef, Undef)

Details ==
    {Plain(Undef), Plain(Null), Plain(Str("")), Plain(Str("Not found")), Plain(Num(7))}
    \cup {Detail(Obj, e, m) : e \in {Undef, Str(""), Str("boom"), Num(0), Num(5)},
                              m \in {Undef, Str(""), Str("bad slot")}}

\* What r.json() yields for an error reply: a rejection (an empty body, a body that
\* is not JSON), or the parsed value, of which only its detail property is read.
ErrorBodies ==
    {[parses |-> FALSE, t |-> "undefined", detail |-> Plain(Undef)]}
    \cup {[parses |-> TRUE, t |-> k, detail |-> Plain(Undef)] : k \in {"null", "num", "str"}}
    \cup {[parses |-> TRUE, t |-> "obj", detail |-> d] : d \in Details}

Statuses ==
    { [status |-> 422, statusText |-> "Unprocessable Entity"],
      [status |-> 500, statusText |-> "Internal Server Error"],
      [status |-> 404, statusText |-> ""] }

\* The bodies of the successful replies of the request life cycle: text that is not
\* JSON, JSON null, and two envelopes.
NoCharts == [present |-> FALSE, items |-> << >>]

\* A text is the sequence of its characters. answer_md is a text, missing, or
\* (t = "num") a non-zero number.
NoMd == [t |-> "undefined", chars |-> << >>]
Md(chars) == [t |-> "str", chars |-> chars]
Title == << "#", " ", "a" >>

\* The properties of the response envelope that App's render reads; here none
\* is there.
EmptyEnvelope ==
    [t |-> "obj", status |-> Undef, message |-> Undef, clarifications |-> NoCharts,
     answer_md |-> NoMd, charts |-> NoCharts, tables |-> NoCharts,
     citations |-> NoCharts, logs |-> NoCharts, debug |-> Undef]

JsonNull == [EmptyEnvelope EXCEPT !.t = "null"]
SuccessBodies ==
    { [parses |-> FALSE, data |-> JsonNull],
      [parses |-> TRUE, data |-> JsonNull],
      [parses |-> TRUE, data |-> [EmptyEnvelope EXCEPT !.answer_md = Md(Title)]],
      [parses |-> TRUE,
       data |-> [EmptyEnvelope EXCEPT !.charts = [present |-> TRUE, items |-> << >>]]] }

NoBody == [parses |-> FALSE, t |-> "undefined", detail |-> Plain(Undef)]
NoData == [parses |-> FALSE, data |-> JsonNull]

Responses ==
    {[ok |-> FALSE, status |-> st.status, statusText |-> st.statusText,
      body |-> b, success |-> NoData] : st \in Statuses, b \in ErrorBodies}
    \cup {[ok |-> TRUE, status |-> 200, statusText |-> "OK",
           body |-> NoBody, success |-> b] : b \in SuccessBodies}

NoResponse == [ok |-> FALSE, status |-> 0, statusText |-> "", body |-> NoBody,
               success |-> NoData]

\* ------------------------------------------------------------ callEndpoint

TypeErrorMessage == "Cannot read properties of null (reading 'detail')"
SyntaxErrorMessage == "Unexpected token < in JSON at position 0"
NetworkErrorMessage == "Failed to fetch"

\* `${r.status} ${r.statusText}`
StatusLine(r) == ToString(r.status) \o " " \o r.statusText

\* errorData.detail?.error || errorData.detail?.message || ""
DetailOf(d) ==
    IF d.t = "str" THEN Str(d.s)
    ELSE LET e == IF d.t = "obj" THEN d.error ELSE Undef
             m == IF d.t = "obj" THEN d.message ELSE Undef
         IN  Or(Or(e, m), Str(""))

\* e.message || String(e), for the Error thrown with the given argument.
Caught(arg) == IF ToStr(arg) # "" THEN ToStr(arg) ELSE "Error"

\* Lines 76-83 and 93-96: the message that reaches setError for a reply that is
\* not ok. r.json().catch(() => ({})) turns a rejection into {}; reading .detail of
\* null throws a TypeError, which the catch of line 93 receives like any other.
ErrorMessage(r) ==
    IF r.body.parses /\ r.body.t = "null"
    THEN TypeErrorMessage
    ELSE LET errorData == IF r.body.parses THEN r.body.detail ELSE Plain(Undef)
             detail == DetailOf(errorData)
         IN  Caught(Or(detail, Str(StatusLine(r))))

NoOutcome == [kind |-> "none", r |-> NoResponse, start |-> 0, end |-> 0]

SendEnabled_Always == TRUE

\* disabled={loading}, line 874
SendEnabled == ~loading

\* Lines 58-74 without the resets of lines 60-62.
ClickSend_KeepsOutcome ==
    /\ SendEnabled
    /\ started < MaxCalls
    /\ loading' = TRUE
    /\ started' = started + 1
    /\ calls' = calls \cup {[id |-> started + 1, start |-> now, pc |-> "fetch",
                             r |-> NoResponse]}
    /\ last' = NoOutcome
    /\ UNCHANGED << error, resp, e2eLatency, now, activeTab, imageVars, view >>

\* Lines 58-74 without setError("") of line 60.
ClickSend_KeepsError ==
    /\ SendEnabled
    /\ started < MaxCalls
    /\ loading' = TRUE
    /\ resp' = JsonNull
    /\ e2eLatency' = Null
    /\ started' = started + 1
    /\ calls' = calls \cup {[id |-> started + 1, start |-> now, pc |-> "fetch",
                             r |-> NoResponse]}
    /\ last' = NoOutcome
    /\ UNCHANGED << error, now, activeTab, imageVars, view >>

\* Lines 58-74: the click handler runs callEndpoint up to its first await.
ClickSend ==
    /\ SendEnabled
    /\ started < MaxCalls
    /\ loading' = TRUE
    /\ error' = ""
    /\ resp' = JsonNull
    /\ e2eLatency' = Null
    /\ started' = started + 1
    /\ calls' = calls \cup {[id |-> started + 1, start |-> now, pc |-> "fetch",
                             r |-> NoResponse]}
    /\ last' = NoOutcome
    /\ UNCHANGED << now, activeTab, imageVars, view >>

\* Lines 93-99 without setE2eLatency.
Fail_NoLatency(c, kind, msg) ==
    /\ error' = msg
    /\ loading' = FALSE
    /\ calls' = calls \ {c}
    /\ last' = [kind |-> kind, r |-> c.r, start |-> c.start, end |-> now]
    /\ UNCHANGED << e2eLatency, resp, started, now, activeTab, imageVars, view >>

\* Lines 93-96 without the finally of lines 97-99.
Fail_KeepsLoading(c, kind, msg) ==
    /\ e2eLatency' = Num(now - c.start)
    /\ error' = msg
    /\ calls' = calls \ {c}
    /\ last' = [kind |-> kind, r |-> c.r, start |-> c.start, end |-> now]
    /\ UNCHANGED << loading, resp, started, now, activeTab, imageVars, view >>

\* Lines 93-99: catch and finally.
Fail(c, kind, msg) ==
    /\ e2eLatency' = Num(now - c.start)
    /\ error' = msg
    /\ loading' = FALSE
    /\ calls' = calls \ {c}
    /\ last' = [kind |-> kind, r |-> c.r, start |-> c.start, end |-> now]
    /\ UNCHANGED << resp, started, now, activeTab, imageVars, view >>

\* fetch rejects: the backend cannot be reached.
FetchReject(c) ==
    /\ c.pc = "fetch"
    /\ Fail(c, "network", NetworkErrorMessage)

\* fetch resolves with a reply; line 76 picks the branch.
FetchResolve(c, r) ==
    /\ c.pc = "fetch"
    /\ calls' = (calls \ {c}) \cup
                {[c EXCEPT !.pc = IF r.ok THEN "json" ELSE "errjson", !.r = r]}
    /\ UNCHANGED << loading, resp, error, e2eLatency, started, now, last,
                    activeTab, imageVars, view >>

\* Lines 77-82: the error body settles, the message is extracted and thrown.
ErrorBodySettle(c) ==
    /\ c.pc = "errjson"
    /\ Fail(c, "http", ErrorMessage(c.r))

\* Lines 85-90: the body of an ok reply settles; a body that is not JSON rejects.
BodySettle(c) ==
    /\ c.pc = "json"
    /\ IF c.r.success.parses
       THEN /\ e2eLatency' = Num(now - c.start)
            /\ resp' = c.r.success.data
            /\ loading' = FALSE
            /\ calls' = calls \ {c}
            /\ last' = [kind |-> "ok", r |-> c.r, start |-> c.start, end |-> now]
            /\ UNCHANGED << error, started, now, activeTab, imageVars, view >>
       ELSE Fail(c, "decode", SyntaxErrorMessage)

\* Time passes between two reads of performance.now().
Tick ==
    /\ now < MaxTime
    /\ now' = now + 1
    /\ UNCHANGED << loading, resp, error, e2eLatency, calls, started, last,
                    activeTab, imageVars, view >>

NotRendered == [crashed |-> FALSE, rendered |-> FALSE]

InitRequest ==
    /\ loading = FALSE
    /\ resp = JsonNull
    /\ error = ""
    /\ e2eLatency = Null
    /\ calls = {}
    /\ started = 0
    /\ now = 0
    /\ last = NoOutcome

NoImage == [data |-> "", width |-> 0, height |-> 0, len |-> 0]

InitImage ==
    /\ imageUri = NoImage
    /\ pipes = << >>
    /\ alerts = << >>

Init ==
    /\ InitRequest
    /\ InitImage
    /\ activeTab = "agent"
    /\ view = NotRendered

\* ------------------------------------------------------ file input onChange

\* The files a user can pick. readable: FileReader delivers onload; decodable: the
\* Image delivers onload; w, h: the intrinsic size; len: the length of the data URL
\* that canvas.toDataURL('image/jpeg', 0.85) returns for the file once resized.
Files ==
    { [name |-> "small.jpg", readable |-> TRUE, decodable |-> TRUE,
       w |-> 800, h |-> 600, len |-> 1000],
      [name |-> "wide.jpg", readable |-> TRUE, decodable |-> TRUE,
       w |-> 4000, h |-> 3000, len |-> 6990506],
      [name |-> "tall.png", readable |-> TRUE, decodable |-> TRUE,
       w |-> 3000, h |-> 4001, len |-> 6990507],
      [name |-> "square.jpg", readable |-> TRUE, decodable |-> TRUE,
       w |-> 2500, h |-> 2500, len |-> 2000],
      [name |-> "full.jpg", readable |-> TRUE, decodable |-> TRUE,
       w |-> 1920, h |-> 1920, len |-> 3000],
      [name |-> "corrupt.jpg", readable |-> TRUE, decodable |-> FALSE,
       w |-> 0, h |-> 0, len |-> 0],
      [name |-> "gone.jpg", readable |-> FALSE, decodable |-> FALSE,
       w |-> 0, h |-> 0, len |-> 0] }

\* const MAX_SIZE = 1920, line 790
MAX_SIZE == 1920

\* Lines 791-804 with the test of line 794 as the only one: an image that is not
\* wider than tall keeps its size.
ResizeDims_LandscapeOnly(w, h) ==
    IF w > h /\ w > MAX_SIZE
    THEN [width |-> [num |-> MAX_SIZE, den |-> 1],
          height |-> [num |-> h * MAX_SIZE, den |-> w]]
    ELSE [width |-> [num |-> w, den |-> 1], height |-> [num |-> h, den |-> 1]]

\* Lines 791-804. A dimension is the fraction num/den, as the division of line 796
\* or 801 leaves it.
ResizeDims(w, h) ==
    IF w > h
    THEN IF w > MAX_SIZE
         THEN [width |-> [num |-> MAX_SIZE, den |-> 1],
               height |-> [num |-> h * MAX_SIZE, den |-> w]]
         ELSE [width |-> [num |-> w, den |-> 1], height |-> [num |-> h, den |-> 1]]
    ELSE IF h > MAX_SIZE
         THEN [width |-> [num |-> w * MAX_SIZE, den |-> h],
               height |-> [num |-> MAX_SIZE, den |-> 1]]
         ELSE [width |-> [num |-> w, den |-> 1], height |-> [num |-> h, den |-> 1]]

\* The dimensions of a chain whose img.onload has not run.
NoDims == [width |-> [num |-> 0, den |-> 1], height |-> [num |-> 0, den |-> 1]]

\* Lines 807-814: the canvas takes the integer part of each dimension, and the
\* data URL encodes the canvas.
Payload(f) ==
    LET d == ResizeDims(f.w, f.h)
    IN  [data |-> f.name, width |-> d.width.num \div d.width.den,
         height |-> d.height.num \div d.height.den, len |-> f.len]

TooLarge_NoRatio(len) == len > 5 * 1024 * 1024

\* base64String.length * 0.75 > 5 * 1024 * 1024, line 820 (both sides times 4)
TooLarge(len) == len * 3 > 4 * (5 * 1024 * 1024)

TooLargeAlert == "Image still too large after compression. Try a smaller image."

\* Lines 771-786 and 828: a file is chosen; the chain starts with the read.
SelectFile(f) ==
    /\ Len(pipes) < MaxSelections
    /\ pipes' = Append(pipes, [file |-> f, pc |-> "reading", dims |-> NoDims])
    /\ UNCHANGED << imageUri, alerts, requestVars, activeTab, view >>

\* Lines 772-775: the change event carries no file.
SelectNothing ==
    /\ imageUri' = NoImage
    /\ UNCHANGED << pipes, alerts, requestVars, activeTab, view >>

\* Lines 784-786: reader.onload hands the data URL to the Image.
ReaderLoad(i) ==
    /\ pipes[i].pc = "reading"
    /\ pipes[i].file.readable
    /\ pipes' = [pipes EXCEPT ![i].pc = "decoding"]
    /\ UNCHANGED << imageUri, alerts, requestVars, activeTab, view >>

\* The read fails: no reader.onerror is set, the chain ends.
ReaderError(i) ==
    /\ pipes[i].pc = "reading"
    /\ ~pipes[i].file.readable
    /\ pipes' = [pipes EXCEPT ![i].pc = "readfailed"]
    /\ UNCHANGED << imageUri, alerts, requestVars, activeTab, view >>

\* Lines 788-826: img.onload resizes (the dimensions are logged at line 818),
\* encodes, and commits or rejects.
ImgLoad(i) ==
    LET dims == ResizeDims(pipes[i].file.w, pipes[i].file.h)
    IN  /\ pipes[i].pc = "decoding"
        /\ pipes[i].file.decodable
        /\ IF TooLarge(pipes[i].file.len)
           THEN /\ alerts' = Append(alerts, TooLargeAlert)
                /\ pipes' = [pipes EXCEPT ![i].pc = "rejected", ![i].dims = dims]
                /\ UNCHANGED imageUri
           ELSE /\ imageUri' = Payload(pipes[i].file)
                /\ pipes' = [pipes EXCEPT ![i].pc = "committed", ![i].dims = dims]
                /\ UNCHANGED alerts
        /\ UNCHANGED << requestVars, activeTab, view >>

\* The decode fails: no img.onerror is set, the chain ends.
ImgError(i) ==
    /\ pipes[i].pc = "decoding"
    /\ ~pipes[i].file.decodable
    /\ pipes' = [pipes EXCEPT ![i].pc = "decodefailed"]
    /\ UNCHANGED << imageUri, alerts, requestVars, activeTab, view >>

\* Lines 837-851: the clear button, shown while an image is held.
ClearImage ==
    /\ imageUri.len > 0
    /\ imageUri' = NoImage
    /\ UNCHANGED << pipes, alerts, requestVars, activeTab, view >>

NextImage ==
    \/ \E f \in Files : SelectFile(f)
    \/ SelectNothing
    \/ \E i \in DOMAIN pipes : ReaderLoad(i)
    \/ \E i \in DOMAIN pipes : ReaderError(i)
    \/ \E i \in DOMAIN pipes : ImgLoad(i)
    \/ \E i \in DOMAIN pipes : ImgError(i)
    \/ ClearImage

SpecImage == Init /\ [][NextImage]_vars

\* -------------------------------------------------------------- markdown

\* The characters of the answers that are rendered: a letter, the space, the
\* newline, a digit and the characters the rules of renderMarkdown look for.
MdChars == {"a", " ", "\n", "#", "*", "1", ".", "-"}

RECURSIVE Lines(_)
\* The lines of a text: the pieces between its newlines. With the m flag ^ and $
\* match at the ends of each of them, and . matches no newline.
Lines(s) ==
    IF \A i \in DOMAIN s : s[i] # "\n" THEN << s >>
    ELSE LET i == CHOOSE k \in DOMAIN s :
                     s[k] = "\n" /\ \A j \in 1..(k - 1) : s[j] # "\n"
         IN  << SubSeq(s, 1, i - 1) >> \o Lines(SubSeq(s, i + 1, Len(s)))

RECURSIVE Unlines(_)
Unlines(ls) ==
    IF Len(ls) = 1 THEN ls[1] ELSE ls[1] \o << "\n" >> \o Unlines(Tail(ls))

StartsWith(s, prefix) ==
    Len(s) >= Len(prefix) /\ SubSeq(s, 1, Len(prefix)) = prefix

\* html.replace(/^<prefix>(.*)$/gim, "<open>$1<close>") on one line; a tag is
\* one element of the result.
Wrap(line, prefix, open, close) ==
    IF StartsWith(line, prefix)
    THEN << open >> \o SubSeq(line, Len(prefix) + 1, Len(line)) \o << close >>
    ELSE line

\* Lines 107-109: the three heading rules, in this order.
Headings(line) ==
    LET h3 == Wrap(line, << "#", "#", "#", " " >>, "<h3 class=\"md-h3\">", "</h3>")
        h2 == Wrap(h3, << "#", "#", " " >>, "<h2 class=\"md-h2\">", "</h2>")
    IN  Wrap(h2, << "#", " " >>, "<h1 class=\"md-h1\">", "</h1>")

RECURSIVE Bold(_)
\* Line 111, /\*\*(.*?)\*\*/g on one line: the leftmost ** that has a later **,
\* closed by the nearest one.
Bold(line) ==
    LET Stars(i) == i + 1 <= Len(line) /\ line[i] = "*" /\ line[i + 1] = "*"
        Closes(i) == {j \in (i + 2)..Len(line) : Stars(j)}
        opens == {i \in DOMAIN line : Stars(i) /\ Closes(i) # {}}
    IN  IF opens = {} THEN line
        ELSE LET i == CHOOSE k \in opens : \A m \in opens : k <= m
                 j == CHOOSE k \in Closes(i) : \A m \in Closes(i) : k <= m
             IN  SubSeq(line, 1, i - 1) \o << "<strong>" >>
                 \o SubSeq(line, i + 2, j - 1) \o << "</strong>" >>
                 \o Bold(SubSeq(line, j + 2, Len(line)))

Digits == {"1"}
Spaces == {" ", "\n"}

\* The first index from p on whose element is not in set, Len(s) + 1 if none.
Skip(s, p, set) ==
    LET stops == {k \in p..Len(s) : s[k] \notin set}
    IN  IF stops = {} THEN Len(s) + 1
        ELSE CHOOSE k \in stops : \A m \in stops : k <= m

\* The index of the first newline from p on, Len(s) + 1 if none.
LineEnd(s, p) ==
    LET ends == {k \in p..Len(s) : s[k] = "\n"}
    IN  IF ends = {} THEN Len(s) + 1
        ELSE CHOOSE k \in ends : \A m \in ends : k <= m

RECURSIVE NumberedItems(_)
\* Line 113, /^\d+\.\s+(.*)$/gm on the whole text: \s+ takes every space and
\* newline after the period, so the item is the rest of the line it ends on.
NumberedItems(s) ==
    LET Dot(p) == Skip(s, p, Digits)
        Starts(p) == /\ p = 1 \/ s[p - 1] = "\n"
                     /\ Dot(p) > p
                     /\ Dot(p) + 1 <= Len(s)
                     /\ s[Dot(p)] = "."
                     /\ s[Dot(p) + 1] \in Spaces
        starts == {p \in DOMAIN s : Starts(p)}
    IN  IF starts = {} THEN s
        ELSE LET p == CHOOSE k \in starts : \A m \in starts : k <= m
                 item == Skip(s, Dot(p) + 1, Spaces)
                 end == LineEnd(s, item)
             IN  SubSeq(s, 1, p - 1) \o << "<li>" >>
                 \o SubSeq(s, item, end - 1) \o << "</li>" >>
                 \o NumberedItems(SubSeq(s, end, Len(s)))

\* Line 116 with /\n\n\n+/g in the place of /\n\n+/g.
RECURSIVE ParagraphBreaks_TwoBlankLines(_)
ParagraphBreaks_TwoBlankLines(s) ==
    IF s = << >> THEN << >>
    ELSE IF Skip(s, 1, {"\n"}) > 3
         THEN << "<br/><br/>" >>
              \o ParagraphBreaks_TwoBlankLines(SubSeq(s, Skip(s, 1, {"\n"}), Len(s)))
         ELSE << s[1] >> \o ParagraphBreaks_TwoBlankLines(Tail(s))

RECURSIVE ParagraphBreaks(_)
\* Line 116, html.replace(/\n\n+/g, "<br/><br/>"): every run of two or more
\* newlines becomes one break.
ParagraphBreaks(s) ==
    IF s = << >> THEN << >>
    ELSE IF Skip(s, 1, {"\n"}) > 2
         THEN << "<br/><br/>" >>
              \o ParagraphBreaks(SubSeq(s, Skip(s, 1, {"\n"}), Len(s)))
         ELSE << s[1] >> \o ParagraphBreaks(Tail(s))

DashItem(line) == Wrap(line, << "-", " " >>, "<li>", "</li>")

NoHtml == [threw |-> FALSE, shown |-> FALSE, html |-> << >>]

\* Lines 102-119. A number has no replace method: the call at line 107 throws.
renderMarkdown(md) ==
    IF md.t = "undefined" \/ (md.t = "str" /\ md.chars = << >>) THEN NoHtml
    ELSE IF md.t = "num" THEN [NoHtml EXCEPT !.threw = TRUE]
    ELSE LET headed == Unlines([i \in DOMAIN Lines(md.chars) |->
                                    Headings(Lines(md.chars)[i])])
             bold == Unlines([i \in DOMAIN Lines(headed) |-> Bold(Lines(headed)[i])])
             numbered == NumberedItems(bold)
             listed == Unlines([i \in DOMAIN Lines(numbered) |->
                                    DashItem(Lines(numbered)[i])])
         IN  [threw |-> FALSE, shown |-> TRUE, html |-> ParagraphBreaks(listed)]

\* ---------------------------------------------------------------- charts

\* The charts of a response. A chart is the record of the properties the
\* renderers read; isNull marks a null entry of the charts array. series and
\* data are [present, items]: present is FALSE when the property is missing.
XValues == {1, 2, 3}
YValues == {0, 4}
SeriesNames == << "A", "B" >>

Points == [x : XValues, y : YValues]
DataSeqs == UNION {[1..n -> Points] : n \in 0..MaxPoints}
\* The first n series of the chart: series i has the name SeriesNames[i] and the
\* data d[i].
SeriesList(n, d) == [i \in 1..n |-> [name |-> SeriesNames[i], data |-> d[i]]]

\* Timeline dates: ISO strings (two of them name the same instant) and null.
Dates == {Str("2025-01-05"), Str("2025-03-01"), Str("2025-03-01T00:00:00Z"), Null}
Entries == [park : {"Stanley", "Cambridge"}, date : Dates]
EntrySeqs == UNION {[1..n -> Entries] : n \in 0..MaxEntries}

Absent == [present |-> FALSE, items |-> << >>]
Given(items) == [present |-> TRUE, items |-> items]

Chart(type, series, data, order) ==
    [isNull |-> FALSE, type |-> type, series |-> series, data |-> data,
     sort_order |-> order, x_field |-> "month", y_field |-> "cost"]

NullChart == [Chart(Undef, Absent, Absent, Undef) EXCEPT !.isNull = TRUE]

SeriesTypes == {"line", "bar", "bar_stacked"}

TimelineCharts ==
    {Chart(Str("timeline"), Absent, Given(es), o) :
        es \in EntrySeqs, o \in {Str("asc"), Str("desc"), Str("ASC"), Undef}}
    \cup {Chart(Str("timeline"), Absent, Absent, Str("asc"))}

OtherCharts ==
    {NullChart}
    \cup {Chart(Str(ty), Absent, Absent, Undef) : ty \in SeriesTypes}
    \cup {Chart(ty, sr, Absent, Undef) :
            ty \in {Undef, Null, Str(""), Str("pie"), Str("Line"), Str("area")},
            sr \in {Absent, Given(<< [name |-> "A", data |-> << [x |-> 1, y |-> 4] >>] >>)}}

\* A response with an answer and one chart.
Envelope(chart) ==
    [EmptyEnvelope EXCEPT !.answer_md = Md(Title), !.charts = Given(<< chart >>)]

\* What one chart renders to: the dataset handed to the plot (rows), the timeline's
\* items, or the placeholder's text; threw when the renderer raised a TypeError.
ChartView(kind, rows, items, text) ==
    [threw |-> FALSE, kind |-> kind, rows |-> rows, items |-> items, text |-> text]
Threw == [threw |-> TRUE, kind |-> "", rows |-> << >>, items |-> << >>, text |-> ""]

\* series.flatMap((s) => s.data.map((d) => d.x))
RECURSIVE FlatXs(_)
FlatXs(series) ==
    IF series = << >> THEN << >>
    ELSE [i \in DOMAIN series[1].data |-> series[1].data[i].x] \o FlatXs(Tail(series))

\* [...new Set(xs)]: the distinct values, in the order of their first occurrence.
RECURSIVE Distinct(_)
Distinct(xs) ==
    IF xs = << >> THEN << >>
    ELSE LET front == Distinct(SubSeq(xs, 1, Len(xs) - 1))
             x == xs[Len(xs)]
         IN  IF \E i \in DOMAIN front : front[i] = x THEN front ELSE Append(front, x)

Range(xs) == {xs[i] : i \in DOMAIN xs}

\* The place of e in the sorted s (cmp is the comparator, as a function of the
\* pair it compares): after every element that the comparator does
\* not put behind it (Array.prototype.sort is stable).
RECURSIVE InsertBy(_, _, _)
InsertBy(e, s, cmp) ==
    IF s = << >> THEN << e >>
    ELSE IF cmp[<< Head(s), e >>] <= 0
         THEN << Head(s) >> \o InsertBy(e, Tail(s), cmp)
         ELSE << e >> \o s

\* xs.sort(cmp)
RECURSIVE SortBy(_, _)
SortBy(xs, cmp) ==
    IF xs = << >> THEN << >>
    ELSE InsertBy(xs[Len(xs)], SortBy(SubSeq(xs, 1, Len(xs) - 1), cmp), cmp)

Unsorted(xs) == xs

\* .sort((a, b) => a - b), line 242
SortNumeric(xs) ==
    SortBy(xs, [p \in Range(xs) \X Range(xs) |-> p[1] - p[2]])

\* series.data.find((d) => d.x === xVal), then point ? point.y : missing
ValueAt(data, xVal, missing) ==
    IF \E i \in DOMAIN data : data[i].x = xVal
    THEN Num(data[CHOOSE i \in DOMAIN data :
                    /\ data[i].x = xVal
                    /\ \A j \in 1..(i - 1) : data[j].x # xVal].y)
    ELSE missing

\* chart.series.forEach((series) => { dataPoint[series.name] = ... })
RECURSIVE FillRow(_, _, _, _)
FillRow(series, xVal, missing, dataPoint) ==
    IF series = << >> THEN dataPoint
    ELSE FillRow(Tail(series), xVal, missing,
                 (series[1].name :> ValueAt(series[1].data, xVal, missing)) @@ dataPoint)

\* allXValues.map((xVal) => { const dataPoint = { [chart.x_axis.field]: xVal }; ... })
RowsOf(chart, allXValues, missing) ==
    [k \in DOMAIN allXValues |->
        FillRow(chart.series.items, allXValues[k], missing,
                (chart.x_field :> Num(allXValues[k])))]

\* Lines 239-251
renderLineChart(chart) ==
    IF ~chart.series.present THEN Threw
    ELSE LET allXValues == SortNumeric(Distinct(FlatXs(chart.series.items)))
         IN  ChartView("line", RowsOf(chart, allXValues, Null), << >>, "")

\* Lines 292-296 with the last series in the place of series[0].
renderBarChart_LastSeries(chart) ==
    LET data == IF chart.series.present /\ chart.series.items # << >>
                THEN chart.series.items[Len(chart.series.items)].data ELSE << >>
    IN  ChartView("bar",
                  [i \in DOMAIN data |->
                      (chart.y_field :> Num(data[i].y)) @@ (chart.x_field :> Num(data[i].x))],
                  << >>, "")

\* Lines 292-296
renderBarChart(chart) ==
    LET data == IF chart.series.present /\ chart.series.items # << >>
                THEN chart.series.items[1].data ELSE << >>
    IN  ChartView("bar",
                  [i \in DOMAIN data |->
                      (chart.y_field :> Num(data[i].y)) @@ (chart.x_field :> Num(data[i].x))],
                  << >>, "")

renderStackedBarChart_Gaps(chart) ==
    IF ~chart.series.present THEN Threw
    ELSE ChartView("bar_stacked",
                   RowsOf(chart, Distinct(FlatXs(chart.series.items)), Null), << >>, "")

renderStackedBarChart_Sorted(chart) ==
    IF ~chart.series.present THEN Threw
    ELSE ChartView("bar_stacked",
                   RowsOf(chart, SortNumeric(Distinct(FlatXs(chart.series.items))), Num(0)),
                   << >>, "")

\* Lines 331-342
renderStackedBarChart(chart) ==
    IF ~chart.series.present THEN Threw
    ELSE LET allXValues == Distinct(FlatXs(chart.series.items))
         IN  ChartView("bar_stacked", RowsOf(chart, allXValues, Num(0)), << >>, "")

\* new Date(date) as a number, in seconds since the epoch: an ISO date is
\* midnight UTC of its day, new Date(null) is the epoch.
DateValue(date) ==
    CASE date = Null -> 0
      [] date = Str("2025-01-05") -> 1736035200
      [] date = Str("2025-03-01") -> 1740787200
      [] date = Str("2025-03-01T00:00:00Z") -> 1740787200

CompareDates_Ascending(order, a, b) == DateValue(a.date) - DateValue(b.date)

\* The comparator of lines 384-387
CompareDates(order, a, b) ==
    IF order = Str("asc")
    THEN DateValue(a.date) - DateValue(b.date)
    ELSE DateValue(b.date) - DateValue(a.date)

\* Lines 383-387; the strings derived for display from each item are not modelled.
renderTimeline(chart) ==
    LET data == IF chart.data.present THEN chart.data.items ELSE << >>
        cmp == [p \in Range(data) \X Range(data) |->
                    CompareDates(chart.sort_order, p[1], p[2])]
    IN  ChartView("timeline", << >>, SortBy(data, cmp), "")

\* Lines 230-237; chart?.type of a null chart is undefined.
renderChart(chart) ==
    LET chartType == IF chart.isNull THEN Undef ELSE chart.type
    IN  CASE chartType = Str("line") -> renderLineChart(chart)
          [] chartType = Str("bar") -> renderBarChart(chart)
          [] chartType = Str("bar_stacked") -> renderStackedBarChart(chart)
          [] chartType = Str("timeline") -> renderTimeline(chart)
          [] OTHER -> ChartView("unsupported", << >>, << >>,
                                "Unsupported chart type: " \o ToStr(chartType))

\* Lines 203-228: nothing for no charts; else each chart's title is read (which
\* throws on a null chart) and the chart dispatched.
ChartsView(charts) ==
    IF ~charts.present \/ charts.items = << >> THEN << >>
    ELSE [i \in DOMAIN charts.items |->
            IF charts.items[i].isNull THEN Threw ELSE renderChart(charts.items[i])]

\* --------------------------------------------------------- other sections

\* Lines 121-167: no banner without a status or with "OK"; the title is the
\* map's, or the status itself.
StatusBanner(status, message) ==
    IF ~Truthy(status) \/ status = Str("OK")
    THEN [shown |-> FALSE, title |-> "", message |-> ""]
    ELSE [shown |-> TRUE,
          title |-> CASE status = Str("NEEDS_CLARIFICATION") -> "More Information Needed"
                      [] status = Str("UNSUPPORTED") -> "Not Supported Yet"
                      [] OTHER -> ToStr(status),
          message |-> IF Truthy(message) THEN ToStr(message) ELSE ""]

\* Lines 169-201 behind the guard of lines 1015-1016: the questions, if any.
ClarificationsView(clarifications) ==
    IF ~clarifications.present THEN << >> ELSE clarifications.items

\* A row of a table is the sequence of its properties, [k, v], in their order.
Keys(row) == [i \in DOMAIN row |-> row[i].k]
Get(row, c) ==
    IF \E i \in DOMAIN row : row[i].k = c
    THEN row[CHOOSE i \in DOMAIN row : row[i].k = c].v
    ELSE Undef

Table(name, columns, rows) ==
    [isNull |-> FALSE, name |-> name, columns |-> columns, rows |-> rows]
NullTable == [Table(Undef, Absent, Absent) EXCEPT !.isNull = TRUE]

Row(park, cost) == << [k |-> "park", v |-> Str(park)], [k |-> "cost", v |-> cost] >>
Tables ==
    {NullTable}
    \cup {Table(name, cols, rows) :
            name \in {Undef, Str("costs")},
            cols \in {Absent, Given(<< >>), Given(<< "cost", "area" >>)},
            rows \in {Absent, Given(<< >>),
                      Given(<< Row("Stanley", Num(5)), Row("Cambridge", Null) >>)}}

\* Lines 459-488, one table: its title, the header cells and the cells of each
\* row. t.name of a null table throws.
TableView(t, idx) ==
    IF t.isNull
    THEN [threw |-> TRUE, name |-> "", header |-> << >>, body |-> << >>]
    ELSE LET rows == IF t.rows.present THEN t.rows.items ELSE << >>
             first == IF rows # << >> THEN rows[1] ELSE << >>
             Columns(row) == IF t.columns.present /\ t.columns.items # << >>
                             THEN t.columns.items ELSE Keys(row)
         IN  [threw |-> FALSE,
              name |-> IF Truthy(t.name) THEN ToStr(t.name)
                       ELSE "table_" \o ToString(idx),
              header |-> IF t.columns.present THEN t.columns.items ELSE Keys(first),
              body |-> [r \in DOMAIN rows |->
                          [c \in DOMAIN Columns(rows[r]) |->
                              ToStr(Get(rows[r], Columns(rows[r])[c]))]]]

\* Lines 455-456 without the !tables test: the length of undefined is read,
\* which throws.
TablesView_Unguarded(tables) ==
    IF ~tables.present THEN << TableView(NullTable, 0) >>
    ELSE [i \in DOMAIN tables.items |-> TableView(tables.items[i], i - 1)]

\* Lines 455-491: nothing for no tables; idx counts from 0.
TablesView(tables) ==
    IF ~tables.present \/ tables.items = << >> THEN << >>
    ELSE [i \in DOMAIN tables.items |-> TableView(tables.items[i], i - 1)]

Citations == [title : {Undef, Str("Bylaw 12")}, source : {Undef, Str("bylaws.pdf")}]

\* Lines 493-508.
CitationsView(citations) ==
    IF ~citations.present \/ citations.items = << >> THEN << >>
    ELSE [i \in DOMAIN citations.items |->
            [title |-> ToStr(Or(citations.items[i].title, Str("source"))),
             source |-> ToStr(Or(citations.items[i].source, Str("")))]]

\* Lines 684-700: the debug card is there for a truthy debug property.
DebugView(debug) == Truthy(debug)

\* ---------------------------------------------------------------- telemetry

\* The tool logs of a response: elapsed_ms is a number of milliseconds or missing.
Logs == [tool : {"sql"}, ok : BOOLEAN,
         elapsed_ms : {Undef, Num(80), Num(120), Num(300)}]
\* The measured latencies of the responses whose telemetry is rendered.
Latencies == {0, 100, 400, 900}

\* a / b, kept as the fraction; den is 0 for a division by zero.
Ratio(a, b) == [has |-> TRUE, num |-> a, den |-> b]
NoRatio == [has |-> FALSE, num |-> 0, den |-> 1]

RECURSIVE totalToolTime(_)
\* Line 514: logs.reduce((sum, l) => sum + (l.elapsed_ms || 0), 0)
totalToolTime(logs) ==
    IF logs = << >> THEN 0
    ELSE (IF Truthy(logs[1].elapsed_ms) THEN logs[1].elapsed_ms.n ELSE 0)
         + totalToolTime(Tail(logs))

NoTelemetry ==
    [shown |-> FALSE, total |-> 0, calls |-> 0, successCount |-> 0, failCount |-> 0,
     average |-> NoRatio, networkTime |-> Null, networkPercent |-> NoRatio,
     toolPercent |-> NoRatio, breakdown |-> FALSE]

\* LogsView without the return of line 511 and with every e2eLatency ? of lines
\* 519-521 taken as true.
LogsView_Unguarded(logs, e2e) ==
    LET items == IF logs.present THEN logs.items ELSE << >>
        total == totalToolTime(items)
    IN  [shown |-> TRUE, total |-> total, calls |-> Len(items),
         successCount |-> Cardinality({i \in DOMAIN items : items[i].ok}),
         failCount |-> Cardinality({i \in DOMAIN items : ~items[i].ok}),
         average |-> Ratio(total, Len(items)),
         networkTime |-> Num(e2e.n - total),
         networkPercent |-> Ratio((e2e.n - total) * 100, e2e.n),
         toolPercent |-> Ratio(total * 100, e2e.n),
         breakdown |-> Truthy(e2e)]

\* Lines 510-682, the numbers of the performance metrics: nothing for no logs;
\* the average per tool of lines 582 and 585; the network time and the two
\* percentages, each null for a falsy e2eLatency; the time breakdown of line 612.
LogsView(logs, e2e) ==
    IF ~logs.present \/ logs.items = << >> THEN NoTelemetry
    ELSE LET total == totalToolTime(logs.items)
         IN  [shown |-> TRUE, total |-> total, calls |-> Len(logs.items),
              successCount |-> Cardinality({i \in DOMAIN logs.items : logs.items[i].ok}),
              failCount |-> Cardinality({i \in DOMAIN logs.items : ~logs.items[i].ok}),
              average |-> Ratio(total, Len(logs.items)),
              networkTime |-> IF Truthy(e2e) THEN Num(e2e.n - total) ELSE Null,
              networkPercent |-> IF Truthy(e2e)
                                 THEN Ratio((e2e.n - total) * 100, e2e.n) ELSE NoRatio,
              toolPercent |-> IF Truthy(e2e) THEN Ratio(total * 100, e2e.n) ELSE NoRatio,
              breakdown |-> Truthy(e2e)]

\* ---------------------------------------------------------------------- App

\* What App shows when there is no response, or (crashed) after an exception.
Blank(crashed) ==
    [crashed |-> crashed, rendered |-> TRUE, hasResponse |-> FALSE,
     banner |-> StatusBanner(Undef, Undef), clarifications |-> << >>,
     markdown |-> NoHtml, charts |-> << >>, tables |-> << >>, citations |-> << >>,
     logs |-> NoTelemetry, debug |-> FALSE, nlu |-> FALSE]

\* Lines 1005-1062, the response section of App's render. The answer is rendered
\* on both tabs, the other sections on the agent tab, the NLU cards on the other.
\* An exception raised while rendering propagates out of App (there is no error
\* boundary), and React then shows nothing at all.
AppView(r, tab, e2e) ==
    IF r.t = "null" THEN Blank(FALSE)
    ELSE LET agent == tab = "agent"
             markdown == renderMarkdown(r.answer_md)
             charts == IF agent THEN ChartsView(r.charts) ELSE << >>
             tables == IF agent THEN TablesView(r.tables) ELSE << >>
         IN  IF \/ markdown.threw
                \/ \E i \in DOMAIN charts : charts[i].threw
                \/ \E i \in DOMAIN tables : tables[i].threw
             THEN Blank(TRUE)
             ELSE [crashed |-> FALSE, rendered |-> TRUE, hasResponse |-> TRUE,
                   banner |-> IF agent THEN StatusBanner(r.status, r.message)
                              ELSE StatusBanner(Undef, Undef),
                   clarifications |-> IF agent THEN ClarificationsView(r.clarifications)
                                      ELSE << >>,
                   markdown |-> markdown,
                   charts |-> charts,
                   tables |-> tables,
                   citations |-> IF agent THEN CitationsView(r.citations) ELSE << >>,
                   logs |-> IF agent THEN LogsView(r.logs, e2e) ELSE NoTelemetry,
                   debug |-> agent /\ DebugView(r.debug),
                   nlu |-> ~agent]

\* Line 384 with chart.data.sort(...) in the place of [...chart.data].sort(...):
\* the array of the response is sorted in place.
ChartAfterRender_SortsInPlace(chart) ==
    IF ~chart.isNull /\ chart.type = Str("timeline") /\ chart.data.present
    THEN [chart EXCEPT !.data.items = renderTimeline(chart).items]
    ELSE chart

\* The chart object once its renderer has run. The renderers build new arrays:
\* [...new Set(...)] at lines 240 and 332, map at lines 244, 293 and 335, and
\* the copy [...(chart.data || [])] that line 384 sorts; none writes to the chart.
ChartAfterRender(chart) == chart

\* The response once App has rendered: its charts have been through their
\* renderers on the agent tab; reduce and filter of lines 514-516 leave the
\* logs as they are.
EnvelopeAfterRender(r, tab) ==
    IF r.t = "null" \/ tab # "agent" \/ ~r.charts.present THEN r
    ELSE [r EXCEPT !.charts.items =
            [i \in DOMAIN r.charts.items |-> ChartAfterRender(r.charts.items[i])]]

\* React renders App from the state.
Render ==
    /\ ~view.rendered
    /\ view' = AppView(resp, activeTab, e2eLatency)
    /\ resp' = EnvelopeAfterRender(resp, activeTab)
    /\ UNCHANGED << activeTab, loading, error, e2eLatency, calls, started, now, last,
                    imageVars >>

\* Lines 857-870: a tab is clicked, and App renders again.
SetActiveTab(tab) ==
    /\ view.rendered
    /\ activeTab' = tab
    /\ view' = AppView(resp, tab, e2eLatency)
    /\ resp' = EnvelopeAfterRender(resp, tab)
    /\ UNCHANGED << loading, error, e2eLatency, calls, started, now, last, imageVars >>

NextRender ==
    \/ Render
    \/ \E tab \in {"agent", "nlu"} : SetActiveTab(tab)

\* The sections a response may carry besides its answer: each
\* collection missing, empty, or holding an item or two.
NumMd == [t |-> "num", chars |-> << >>]
OptionalCharts ==
    {Absent, Given(<< >>),
     Given(<< Chart(Str("bar"), Given(SeriesList(1, << << [x |-> 1, y |-> 4] >> >>)),
                    Absent, Undef) >>),
     Given(<< Chart(Str("line"), Absent, Absent, Undef) >>),
     Given(<< Chart(Str("bar_stacked"), Absent, Absent, Undef) >>)}
OptionalTables ==
    {Absent, Given(<< >>), Given(<< NullTable >>),
     Given(<< Table(Str("costs"), Absent, Given(<< Row("Stanley", Num(5)) >>)) >>)}
OptionalCitations ==
    {Absent, Given(<< >>), Given(<< [title |-> Str("Bylaw 12"), source |-> Undef] >>)}
OptionalLogs ==
    {Absent, Given(<< >>), Given(<< [tool |-> "sql", ok |-> TRUE, elapsed_ms |-> Num(120)] >>)}
OptionalClarifications == {Absent, Given(<< >>), Given(<< "Which park?" >>)}

\* A response has arrived: the states from which it is rendered. Its chart is a
\* line, bar or bar_stacked chart of up to Len(SeriesNames) series, a timeline,
\* or another chart; or its answer is any text of up to MaxMdLen characters; or
\* its sections are there or not; or it has up to MaxLogs tool logs.
InitRender ==
    /\ \/ /\ \/ \E ty \in SeriesTypes : \E n \in 0..Len(SeriesNames) :
                   \E d \in [1..n -> DataSeqs] :
                      resp = Envelope(Chart(Str(ty), Given(SeriesList(n, d)), Absent, Undef))
             \/ \E c \in TimelineCharts \cup OtherCharts : resp = Envelope(c)
             \/ \E n \in 0..MaxMdLen : \E chars \in [1..n -> MdChars] :
                   resp = [EmptyEnvelope EXCEPT !.answer_md = Md(chars)]
             \/ \E md \in {NoMd, Md(Title), NumMd} :
                \E cl \in OptionalClarifications, ch \in OptionalCharts :
                \E tb \in OptionalTables, ci \in OptionalCitations, lg \in OptionalLogs :
                \E st \in {Undef, Str("OK"), Str("UNSUPPORTED"), Str("PARTIAL")} :
                   resp = [EmptyEnvelope EXCEPT
                             !.status = st,
                             !.message = IF st = Str("PARTIAL") THEN Str("2 of 3") ELSE Undef,
                             !.clarifications = cl, !.answer_md = md, !.charts = ch,
                             !.tables = tb, !.citations = ci, !.logs = lg,
                             !.debug = IF ch = Absent THEN Undef ELSE Obj]
             \/ \E ts \in Tables \X Tables :
                   resp = [EmptyEnvelope EXCEPT !.tables = Given(<< ts[1], ts[2] >>)]
             \/ \E c \in Citations :
                   resp = [EmptyEnvelope EXCEPT !.citations = Given(<< c >>)]
          /\ e2eLatency = Num(1)
       \/ \E n \in 0..MaxLogs : \E lg \in [1..n -> Logs] : \E ms \in Latencies :
             /\ resp = [EmptyEnvelope EXCEPT !.answer_md = Md(Title), !.logs = Given(lg)]
             /\ e2eLatency = Num(ms)
    /\ loading = FALSE
    /\ error = ""
    /\ calls = {}
    /\ started = 1
    /\ now = e2eLatency.n
    /\ last = NoOutcome
    /\ InitImage
    /\ activeTab = "agent"
    /\ view = NotRendered

SpecRender == InitRender /\ [][NextRender]_vars

\* ------------------------------------------------------------------ claims

\* C1: at most one callEndpoint invocation is unsettled at any time.
C1_AtMostOneInFlight == Cardinality(calls) <= 1

\* A second request is in flight after an earlier one settled.
C1_Witness == loading /\ Cardinality(calls) = 1 /\ started >= 2 /\ last.kind = "none"

\* C2: once every selection's chain has ended, and the latest selection's result
\* was accepted, the image held (if one is held) is the latest selection's result;
\* no stale result has replaced it.
C2_LatestSelectionWins ==
    LET n == Len(pipes)
    IN  (/\ n >= 2
         /\ \A i \in 1..n : pipes[i].pc \notin {"reading", "decoding"}
         /\ pipes[n].pc = "committed"
         /\ imageUri.len > 0)
        => imageUri = Payload(pipes[n].file)

\* C3: when img.onload finds the estimate (length * 0.75) above 5 MiB, it raises an
\* alert and leaves the held image as it was; otherwise the new payload becomes
\* the held image.
C3_SizeGuard ==
    [][\A i \in DOMAIN pipes :
          (pipes[i].pc = "decoding" /\ pipes'[i].pc # "decoding" /\ pipes[i].file.decodable)
          => IF pipes[i].file.len * 75 > 5 * 1024 * 1024 * 100
             THEN /\ imageUri' = imageUri
                  /\ alerts' = Append(alerts, TooLargeAlert)
             ELSE /\ imageUri'.len = pipes[i].file.len
                  /\ imageUri'.data = pipes[i].file.name
                  /\ alerts' = alerts]_vars

\* A selection was rejected for its size while an earlier image stays held.
C3_Witness ==
    \E i \in DOMAIN pipes :
        /\ pipes[i].pc = "rejected"
        /\ imageUri.len > 0
        /\ Len(alerts) = 1

\* The message the precedence of C4 prescribes: detail when it is a string (with
\* content), else detail.error, else detail.message, else the status line.
ClaimedMessage(r) ==
    LET d == IF r.body.parses /\ r.body.t = "obj" THEN r.body.detail ELSE Plain(Undef)
    IN  IF d.t = "str" /\ d.s # "" THEN d.s
        ELSE IF d.t = "obj" /\ Truthy(d.error) THEN ToStr(d.error)
        ELSE IF d.t = "obj" /\ Truthy(d.message) THEN ToStr(d.message)
        ELSE StatusLine(r)

\* C4: after a reply that is not ok, the error shown is detail, else detail.error,
\* else detail.message, else "<status> <status text>".
C4_ErrorPrecedence ==
    last.kind = "http" => error = ClaimedMessage(last.r)

\* An error body that carries nothing to show: none, one that is not JSON, one
\* that is no object, or an object without a usable detail.
Malformed(b) ==
    \/ ~b.parses
    \/ b.t # "obj"
    \/ /\ ~(b.detail.t = "str" /\ b.detail.s # "")
       /\ ~(b.detail.t = "obj" /\ (Truthy(b.detail.error) \/ Truthy(b.detail.message)))

\* C5: after a reply that is not ok and whose body is malformed, the error shown is
\* "<status> <status text>".
C5_MalformedFallsBack ==
    (last.kind = "http" /\ Malformed(last.r.body)) => error = StatusLine(last.r)

\* The one chart of the response has been rendered on the agent tab.
ChartShown ==
    /\ view.rendered
    /\ activeTab = "agent"
    /\ resp.charts.present
    /\ Len(resp.charts.items) = 1

TheChart == resp.charts.items[1]

\* The y values of the points of a series at x.
YsAt(data, x) == {data[j].y : j \in {j \in DOMAIN data : data[j].x = x}}

\* Every x of any series of the chart.
AllXs(chart) ==
    UNION {{chart.series.items[i].data[j].x : j \in DOMAIN chart.series.items[i].data} :
             i \in DOMAIN chart.series.items}

\* C6: a line chart's dataset has one row per distinct x of any series, in
\* ascending x order; in a row, a series without a point at the x carries null, a
\* series with a point carries the point's y.
C6_LineRows ==
    (ChartShown /\ ~TheChart.isNull /\ TheChart.type = Str("line") /\ TheChart.series.present)
    => /\ ~view.crashed
       /\ LET rows == view.charts[1].rows
              series == TheChart.series.items
          IN  /\ {rows[k].month.n : k \in DOMAIN rows} = AllXs(TheChart)
              /\ \A k \in DOMAIN rows : rows[k].month.t = "num"
              /\ \A k \in 1..(Len(rows) - 1) : rows[k].month.n < rows[k + 1].month.n
              /\ \A k \in DOMAIN rows : \A i \in DOMAIN series :
                    LET ys == YsAt(series[i].data, rows[k].month.n)
                    IN  IF ys = {}
                        THEN rows[k][series[i].name] = Null
                        ELSE rows[k][series[i].name] \in {Num(y) : y \in ys}

\* A line chart given out of order, with a gap: the rows are 1, 2, 3 and series B
\* has no point at 3, while series A's point at 1 has y = 0.
C6_Witness ==
    /\ ChartShown
    /\ ~TheChart.isNull
    /\ TheChart.type = Str("line")
    /\ TheChart.series.present
    /\ Len(TheChart.series.items) = 2
    /\ TheChart.series.items[1].data = << [x |-> 3, y |-> 4], [x |-> 1, y |-> 0] >>
    /\ TheChart.series.items[2].data = << [x |-> 2, y |-> 4], [x |-> 1, y |-> 4] >>
    /\ Len(view.charts[1].rows) = 3
    /\ view.charts[1].rows[3].B = Null
    /\ view.charts[1].rows[1].A = Num(0)

\* C7: in a bar_stacked chart's dataset every series' value in every row is a
\* number, and it is 0 where the series has no point at the row's x.
C7_StackedNumeric ==
    (ChartShown /\ ~TheChart.isNull /\ TheChart.type = Str("bar_stacked")
        /\ TheChart.series.present)
    => /\ ~view.crashed
       /\ LET rows == view.charts[1].rows
              series == TheChart.series.items
          IN  \A k \in DOMAIN rows : \A i \in DOMAIN series :
                 /\ rows[k][series[i].name].t = "num"
                 /\ YsAt(series[i].data, rows[k].month.n) = {}
                    => rows[k][series[i].name] = Num(0)

\* A stacked chart where series B has no point at the first row's x.
C7_Witness ==
    /\ ChartShown
    /\ ~TheChart.isNull
    /\ TheChart.type = Str("bar_stacked")
    /\ TheChart.series.present
    /\ Len(TheChart.series.items) = 2
    /\ TheChart.series.items[1].data = << [x |-> 2, y |-> 4] >>
    /\ TheChart.series.items[2].data = << [x |-> 1, y |-> 4] >>
    /\ view.charts[1].rows[1].B = Num(0)
    /\ view.charts[1].rows[2].A = Num(0)

\* Where x is first met, reading the series in order and each series' points in
\* order: the series' index and the point's index, as one number.
FirstMet(chart, x) ==
    LET met == {i * (MaxPoints + 2) + j :
                   i \in DOMAIN chart.series.items, j \in 1..(MaxPoints + 1)}
        at == {m \in met :
                 LET i == m \div (MaxPoints + 2)
                     j == m % (MaxPoints + 2)
                 IN  /\ j \in DOMAIN chart.series.items[i].data
                     /\ chart.series.items[i].data[j].x = x}
    IN  CHOOSE m \in at : \A o \in at : m <= o

\* C8: a bar_stacked chart's rows list the distinct x values in the order they are
\* first met, reading the series in order and each series' points in order.
C8_StackedFirstEncounter ==
    (ChartShown /\ ~TheChart.isNull /\ TheChart.type = Str("bar_stacked")
        /\ TheChart.series.present)
    => /\ ~view.crashed
       /\ LET rows == view.charts[1].rows
          IN  /\ {rows[k].month.n : k \in DOMAIN rows} = AllXs(TheChart)
              /\ \A k \in 1..(Len(rows) - 1) :
                    FirstMet(TheChart, rows[k].month.n)
                        < FirstMet(TheChart, rows[k + 1].month.n)

\* A stacked chart whose rows are not in ascending order: 3, 1, 2.
C8_Witness ==
    /\ ChartShown
    /\ ~TheChart.isNull
    /\ TheChart.type = Str("bar_stacked")
    /\ TheChart.series.present
    /\ Len(view.charts[1].rows) = 3
    /\ view.charts[1].rows[1].month = Num(3)
    /\ view.charts[1].rows[2].month = Num(1)
    /\ view.charts[1].rows[3].month = Num(2)

\* How often e occurs in xs.
Count(xs, e) == Cardinality({i \in DOMAIN xs : xs[i] = e})

\* The instant an ISO date string names, in days since 2024-12-31.
Day(date) ==
    CASE date.s = "2025-01-05" -> 5
      [] date.s = "2025-03-01" -> 60
      [] date.s = "2025-03-01T00:00:00Z" -> 60

\* C9: a timeline whose entries all have parseable dates is rendered as a
\* permutation of its entries, with non-decreasing dates when sort_order is
\* "asc" and non-increasing dates for any other sort_order.
C9_TimelineSorted ==
    (/\ ChartShown
     /\ ~TheChart.isNull
     /\ TheChart.type = Str("timeline")
     /\ \A i \in DOMAIN TheChart.data.items : TheChart.data.items[i].date.t = "str")
    => /\ ~view.crashed
       /\ LET items == view.charts[1].items
              data == TheChart.data.items
          IN  /\ Len(items) = Len(data)
              /\ \A e \in Entries : Count(items, e) = Count(data, e)
              /\ \A k \in 1..(Len(items) - 1) :
                    IF TheChart.sort_order = Str("asc")
                    THEN Day(items[k].date) <= Day(items[k + 1].date)
                    ELSE Day(items[k].date) >= Day(items[k + 1].date)

\* A timeline without sort_order, given in ascending order, is shown descending.
C9_Witness ==
    /\ ChartShown
    /\ ~TheChart.isNull
    /\ TheChart.type = Str("timeline")
    /\ TheChart.sort_order = Undef
    /\ TheChart.data.present
    /\ Len(TheChart.data.items) = 2
    /\ TheChart.data.items[1].date = Str("2025-01-05")
    /\ TheChart.data.items[2].date = Str("2025-03-01")
    /\ view.charts[1].items[1] = TheChart.data.items[2]
    /\ view.charts[1].items[2] = TheChart.data.items[1]

\* The type of the chart is none of line, bar, bar_stacked, timeline.
Unrecognized(chart) ==
    \/ chart.isNull
    \/ chart.type \notin {Str("line"), Str("bar"), Str("bar_stacked"), Str("timeline")}

\* C10: a chart of an unrecognized type (a missing type and a missing chart object
\* included) is rendered as a placeholder naming the type, and the rest of the
\* response (the answer) is rendered too.
C10_UnsupportedPlaceholder ==
    (ChartShown /\ Unrecognized(TheChart))
    => /\ ~view.crashed
       /\ view.hasResponse
       /\ view.markdown.shown
       /\ Len(view.charts) = 1
       /\ view.charts[1].kind = "unsupported"
       /\ view.charts[1].text =
             "Unsupported chart type: "
                \o (IF TheChart.isNull THEN "undefined" ELSE ToStr(TheChart.type))

\* A chart of a supported type that cannot be normalized is shown: a line or
\* bar_stacked chart without a series property.
ChartFails ==
    /\ view.rendered
    /\ activeTab = "agent"
    /\ resp.t = "obj"
    /\ resp.charts.present
    /\ \E i \in DOMAIN resp.charts.items :
          /\ ~resp.charts.items[i].isNull
          /\ resp.charts.items[i].type \in {Str("line"), Str("bar_stacked")}
          /\ ~resp.charts.items[i].series.present

\* C11: a failure in one section does not abort the others: when a chart of a
\* supported type fails to normalize, the answer and the tables, citations and
\* logs of the response are still rendered.
C11_SectionsIndependent ==
    ChartFails =>
        /\ ~view.crashed
        /\ view.hasResponse
        /\ (resp.answer_md.t = "str" /\ resp.answer_md.chars # << >>
                => view.markdown.shown)
        /\ (resp.tables.present => Len(view.tables) = Len(resp.tables.items))
        /\ (resp.citations.present => Len(view.citations) = Len(resp.citations.items))
        /\ (resp.logs.present /\ resp.logs.items # << >> => view.logs.shown)

\* C12: a response lacking charts, tables, citations, logs or clarifications is
\* rendered as if the missing collection were empty: its section is absent, and
\* an exception is raised only by something that is there (an item of a
\* collection that is present, or an answer that is not a text).
C12_MissingIsEmpty ==
    view.rendered /\ resp.t = "obj" =>
        /\ (~resp.charts.present => view.charts = << >>)
        /\ (~resp.tables.present => view.tables = << >>)
        /\ (~resp.citations.present => view.citations = << >>)
        /\ (~resp.logs.present => ~view.logs.shown)
        /\ (~resp.clarifications.present => view.clarifications = << >>)
        /\ (view.crashed =>
              \/ resp.answer_md.t = "num"
              \/ resp.charts.present /\ resp.charts.items # << >>
              \/ resp.tables.present /\ resp.tables.items # << >>)

\* A response with an answer and none of the five collections is rendered on the
\* agent tab: the answer is shown and nothing else.
C12_Witness ==
    /\ view.rendered
    /\ activeTab = "agent"
    /\ resp.t = "obj"
    /\ ~resp.charts.present /\ ~resp.tables.present /\ ~resp.citations.present
    /\ ~resp.logs.present /\ ~resp.clarifications.present
    /\ ~view.crashed
    /\ view.hasResponse
    /\ view.markdown.shown

\* The performance metrics of a response with tool logs are shown.
MetricsShown ==
    /\ view.rendered
    /\ ~view.crashed
    /\ activeTab = "agent"
    /\ resp.t = "obj"
    /\ resp.logs.present
    /\ resp.logs.items # << >>

RECURSIVE SumElapsed(_)
\* The sum of the elapsed_ms of the logs, a log without one counting 0.
SumElapsed(logs) ==
    IF logs = << >> THEN 0
    ELSE (IF logs[1].elapsed_ms.t = "num" THEN logs[1].elapsed_ms.n ELSE 0)
         + SumElapsed(Tail(logs))

\* C13: for every sequence of tool logs and every measured e2e_ms, total_tool_ms
\* is the sum of the logs' elapsed_ms and network_ms is exactly e2e_ms minus
\* total_tool_ms, negative when the tools took longer than e2e_ms.
C13_NetworkTime ==
    MetricsShown =>
        /\ view.logs.total = SumElapsed(resp.logs.items)
        /\ view.logs.networkTime = Num(e2eLatency.n - SumElapsed(resp.logs.items))

\* C14: the telemetry never divides by zero: an average per tool is there only
\* for a log count above 0, and the two percentages only for an e2e_ms that is
\* defined and not 0.
C14_NoDivisionByZero ==
    view.rendered =>
        /\ (view.logs.average.has =>
              /\ resp.logs.present
              /\ Len(resp.logs.items) > 0
              /\ view.logs.average.den = Len(resp.logs.items))
        /\ \A pct \in {view.logs.networkPercent, view.logs.toolPercent} :
              pct.has => e2eLatency.t = "num" /\ e2eLatency.n # 0 /\ pct.den # 0

\* The metrics of a response measured at 0 ms are shown: with an average per
\* tool and without the percentages.
C14_Witness ==
    /\ MetricsShown
    /\ e2eLatency = Num(0)
    /\ view.logs.shown
    /\ view.logs.average.has
    /\ ~view.logs.networkPercent.has
    /\ ~view.logs.toolPercent.has

RECURSIVE GCD(_, _)
GCD(a, b) == IF b = 0 THEN a ELSE GCD(b, a % b)

\* The fraction f is num/den.
IsFraction(f, num, den) ==
    /\ f.num \div GCD(f.num, f.den) = num \div GCD(num, den)
    /\ f.den \div GCD(f.num, f.den) = den \div GCD(num, den)

\* The chains whose img.onload has run.
Resized == {i \in DOMAIN pipes : pipes[i].pc \in {"committed", "rejected"}}

\* C15: resizing caps the longer edge at 1920 and keeps the aspect ratio: an
\* image with both edges at most 1920 keeps its size; otherwise the longer edge
\* becomes exactly 1920 and the shorter one shorter * 1920 / longer; neither edge
\* of the result exceeds 1920.
C15_ResizeCaps ==
    \A i \in Resized :
        LET w == pipes[i].file.w
            h == pipes[i].file.h
            d == pipes[i].dims
        IN  /\ (w <= 1920 /\ h <= 1920 =>
                  IsFraction(d.width, w, 1) /\ IsFraction(d.height, h, 1))
            /\ (w > 1920 /\ w >= h =>
                  IsFraction(d.width, 1920, 1) /\ IsFraction(d.height, h * 1920, w))
            /\ (h > 1920 /\ h >= w =>
                  IsFraction(d.height, 1920, 1) /\ IsFraction(d.width, w * 1920, h))
            /\ d.width.num <= 1920 * d.width.den
            /\ d.height.num <= 1920 * d.height.den
            /\ (pipes[i].pc = "committed" /\ imageUri.data = pipes[i].file.name =>
                  imageUri.width <= 1920 /\ imageUri.height <= 1920)

\* An image taller than wide and above the cap has been resized, and so has a
\* square one above the cap.
C15_Witness ==
    /\ \E i \in Resized : pipes[i].file.h > pipes[i].file.w /\ pipes[i].file.h > 1920
    /\ \E i \in Resized : pipes[i].file.h = pipes[i].file.w /\ pipes[i].file.h > 1920

\* The chains that ended in a failed read or a failed decode.
Failed == {i \in DOMAIN pipes : pipes[i].pc \in {"readfailed", "decodefailed"}}

\* C16: when the selected file cannot be read or decoded, an error is shown to the
\* user (an alert other than the one of the size guard, one per failure) and the
\* held image is unchanged.
C16_DecodeFailureSurfaced ==
    /\ Cardinality(Failed)
         <= Cardinality({k \in DOMAIN alerts : alerts[k] # TooLargeAlert})
    /\ \A i \in Failed : imageUri.data # pipes[i].file.name

\* The latest request has settled in a failure.
Failure == ~loading /\ last.kind \in {"network", "http", "decode"}

\* C17: when a request fails (fetch rejects, the reply is not ok, or the body of
\* an ok reply is not JSON), the failure's message becomes the error shown, the
\* time from the start of the request to the failure becomes the e2e latency, and
\* no response is held.
C17_FailureOutcome ==
    Failure =>
        /\ error # ""
        /\ (last.kind = "network" => error = "Failed to fetch")
        /\ (last.kind = "decode" => error = "Unexpected token < in JSON at position 0")
        /\ (last.kind = "http" /\ last.r.body.parses /\ last.r.body.t = "obj"
              /\ last.r.body.detail.t = "str" /\ last.r.body.detail.s # ""
                => error = last.r.body.detail.s)
        /\ e2eLatency = Num(last.end - last.start)
        /\ resp.t = "null"

\* A reply that is not ok has arrived some time after the request started.
C17_Witness ==
    /\ Failure
    /\ last.kind = "http"
    /\ last.end > last.start
    /\ e2eLatency.n > 0
    /\ error = "Not found"

\* C18: a new query discards the previous outcome: while it is in flight there
\* is no response, no error and no e2e latency, and once it has settled the
\* response held, if any, is the body returned for it.
C18_NewQueryDiscards ==
    /\ (loading => resp.t = "null" /\ error = "" /\ e2eLatency = Null)
    /\ (~loading /\ last.kind = "ok" => resp = last.r.success.data)
    /\ (~loading /\ resp.t # "null" => last.kind = "ok")

\* A second query has settled with an envelope, which is held.
C18_Witness ==
    /\ started >= 2
    /\ ~loading
    /\ last.kind = "ok"
    /\ resp.t = "obj"
    /\ resp = last.r.success.data

MdShown ==
    /\ view.rendered
    /\ ~view.crashed
    /\ resp.t = "obj"
    /\ resp.answer_md.t = "str"
    /\ view.markdown.shown

HasBreak(html) == \E k \in DOMAIN html : html[k] = "<br/><br/>"

\* The text has n consecutive blank lines.
BlankLines(chars, n) ==
    \E i \in 1..(Len(Lines(chars)) - n + 1) :
        \A k \in i..(i + n - 1) : Lines(chars)[k] = << >>

\* C20 as stated: a paragraph break is emitted only for two or more consecutive
\* blank lines; a single blank line between two text lines produces none.
C20_BreakNeedsTwoBlankLines ==
    MdShown /\ HasBreak(view.markdown.html) => BlankLines(resp.answer_md.chars, 2)

\* C20: a paragraph break is emitted only where the text has two or more
\* consecutive newlines, that is one or more blank lines; a single blank line
\* after a line of text does produce a paragraph break, a single newline does not.
C20_BreakAtBlankLine ==
    MdShown =>
        LET chars == resp.answer_md.chars
        IN  /\ (HasBreak(view.markdown.html) =>
                  \E i \in 1..(Len(chars) - 1) : chars[i] = "\n" /\ chars[i + 1] = "\n")
            /\ ((\E i \in 1..(Len(chars) - 2) :
                    chars[i] = "a" /\ chars[i + 1] = "\n" /\ chars[i + 2] = "\n")
                  => HasBreak(view.markdown.html))

\* Two lines of text with one blank line between them have been rendered with a
\* paragraph break between them.
C20_Witness ==
    /\ MdShown
    /\ resp.answer_md.chars = << "a", "\n", "\n", "a" >>
    /\ view.markdown.html = << "a", "<br/><br/>", "a" >>

\* A bar chart is shown, and no other section of the response throws (an answer
\* that is a number does, and so does a null table).
BarShown ==
    /\ ChartShown
    /\ ~TheChart.isNull
    /\ TheChart.type = Str("bar")
    /\ resp.answer_md.t # "num"
    /\ \A i \in DOMAIN resp.tables.items : ~resp.tables.items[i].isNull

\* C21: a bar chart's dataset is built from the first series only: one row per
\* data point of the first series, with the point's x and y and nothing else, in
\* the order of the points; the dataset is empty for a chart without series.
C21_BarFirstSeries ==
    BarShown =>
        /\ ~view.crashed
        /\ Len(view.charts) = 1
        /\ view.charts[1].kind = "bar"
        /\ LET rows == view.charts[1].rows
               series == TheChart.series
           IN  IF ~series.present \/ series.items = << >>
               THEN rows = << >>
               ELSE /\ Len(rows) = Len(series.items[1].data)
                    /\ \A k \in DOMAIN rows :
                          /\ DOMAIN rows[k] = {"month", "cost"}
                          /\ rows[k].month = Num(series.items[1].data[k].x)
                          /\ rows[k].cost = Num(series.items[1].data[k].y)

\* A bar chart of two series: the first has two points at the same x, given out
\* of order with the second's, and the dataset is those two points.
C21_Witness ==
    /\ BarShown
    /\ TheChart.series.present
    /\ Len(TheChart.series.items) = 2
    /\ TheChart.series.items[1].data = << [x |-> 3, y |-> 4], [x |-> 3, y |-> 0] >>
    /\ TheChart.series.items[2].data = << [x |-> 1, y |-> 4] >>
    /\ Len(view.charts[1].rows) = 2
    /\ view.charts[1].rows[1].cost = Num(4)
    /\ view.charts[1].rows[2].cost = Num(0)

\* C22: every submitted request eventually settles the loading flag: once
\* callEndpoint has set loading, and provided the fetch and the read of the body
\* settle, loading becomes false again, whichever way the request ends.
C22_LoadingSettles == loading ~> ~loading

\* A request whose body was not JSON has settled, and loading is false again.
C22_Witness ==
    /\ ~loading
    /\ calls = {}
    /\ last.kind = "decode"

\* C23: a response and an error message are never held at the same time.
C23_RespOrError == ~(resp.t # "null" /\ error # "")

\* A query made after an earlier one has failed: its error is held and no
\* response is.
C23_Witness ==
    /\ started >= 2
    /\ ~loading
    /\ error # ""
    /\ resp.t = "null"

\* ---------------------------------------------------------- specifications

Next ==
    \/ ClickSend
    \/ Tick
    \/ \E c \in calls : FetchReject(c)
    \/ \E c \in calls : \E r \in Responses : FetchResolve(c, r)
    \/ \E c \in calls : ErrorBodySettle(c)
    \/ \E c \in calls : BodySettle(c)

Spec == Init /\ [][Next]_vars

\* An awaited promise settles: the fetch of line 70 resolves or rejects, and so
\* does the read of the body at lines 77 and 85.
Fairness ==
    /\ WF_vars(\E c \in calls :
                  FetchReject(c) \/ \E r \in Responses : FetchResolve(c, r))
    /\ WF_vars(\E c \in calls : ErrorBodySettle(c))
    /\ WF_vars(\E c \in calls : BodySettle(c))

SpecLive == Init /\ [][Next]_vars /\ Fairness

====
